---- MODULE Spec2Model ----
(***************************************************************************)
(* A model of anomalib's visualization composer                            *)
(* (anomalib/post_processing/visualizer.py: ImageResult, Visualizer,       *)
(* ImageGrid) and of the callback/root-directory configuration of the CLI  *)
(* (anomalib/utils/cli/cli.py: AnomalibCLI.before_instantiate_classes).    *)
(*                                                                         *)
(* Arrays (numpy ndarrays) are records                                     *)
(*   [px   : a sequence of pixel values, one row of NPix pixels,           *)
(*    text : <<>> or <<label, confidence>> drawn onto the pixels,          *)
(*    chan : "L" (one channel), "RGB" or "BGR",                            *)
(*    unit : the value domain, "0..255" or "0..1" (floats)]                *)
(* An Optional value is a sequence of length 0 (None / attribute not set)  *)
(* or 1 (the value).                                                       *)
(***************************************************************************)
EXTENDS Integers, Sequences, FiniteSets, TLC

VARIABLES
    visualizer,   \* Optional Visualizer object: <<>> or <<[mode, task]>>
    visArgs,      \* the (mode, task) arguments of the last Visualizer(...) call
    visErr,       \* exception raised by the last Visualizer(...) call, "" if none
    result,       \* Optional ImageResult object
    resErr,       \* exception raised by the last ImageResult(...) call, "" if none
    resArgs,      \* the masks passed to the last ImageResult(...) call
    out,          \* outcome of the last visualize_image call
    batchOut,     \* outcome of the last visualize_batch call, consumed to its end
    images,       \* ImageGrid.images of a stand-alone grid
    rendered,     \* outcome of the grid's last generate(): [status, panels]
    config,       \* Optional: the parsed configuration namespace of the CLI
    cliOut,       \* outcome of the last before_instantiate_classes call
    fs            \* checkpoint files written by finished runs

vars == <<visualizer, visArgs, visErr, result, resErr, resArgs, out, batchOut, images, rendered, config, cliOut, fs>>
visVars == <<visualizer, visArgs, visErr, result, resErr, resArgs, out, batchOut>>
gridVars == <<images, rendered>>
cliVars == <<config, cliOut, fs>>

(***************************************************************************)
(* Bounds                                                                  *)
(***************************************************************************)
NPix == 2                   \* pixels per array

\* inputs
ModeArgs == {"full", "simple", "fancy"}
TaskArgs == {"classification", "segmentation", "regression"}
MaskValues == {0, 1, 255}
ImageValues == {10, 200}
AnomalyValues == {0, 100}
Scores == {0, 1}
Labels == {0, 1}
MaxBatch == 2               \* samples per batch
MaxEntries == 3             \* entries added to a stand-alone ImageGrid
Titles == {<<>>, <<"Image">>, <<"Prediction">>}
ColorMaps == {<<>>, <<"gray">>}
MaxCheckpoints == 1         \* checkpoint files kept on disk
Subcommands == {"fit", "predict"}
RootDirs == {<<>>, <<<<"out">>>>}                     \* trainer.default_root_dir: None or a path
Categories == {<<>>, <<"bottle">>}                   \* data.init_args: no keys, or a category
Timestamps == {"2022-01-01_00-00-00", "2022-01-02_00-00-00"}
NormalizationMethods == {<<>>, <<"">>, <<"min_max">>, <<"cdf">>, <<"zscore">>}
NncfPaths == {"", "nncf.yaml", "nncf.json", "missing.yaml"}
ExistingFiles == {"nncf.yaml", "nncf.json"}
YamlFiles == {"nncf.yaml", "missing.yaml"}
ForeignCheckpoint == <<"pretrained", "weights", "model.ckpt">>

None == <<>>
Some(v) == <<v>>
IsNone(o) == Len(o) = 0
Get(o) == o[1]

RECURSIVE SeqMax(_)
SeqMax(s) == IF Len(s) = 1 THEN s[1]
             ELSE LET m == SeqMax(Tail(s)) IN IF s[1] > m THEN s[1] ELSE m

(***************************************************************************)
(* numpy / skimage / cv2 primitives used by visualizer.py                  *)
(***************************************************************************)
PixelMax == 255

Arr(px, chan) == [px |-> px, text |-> <<>>, chan |-> chan, unit |-> "0..255"]

\* np.max(a)
np_max(a) == SeqMax(a.px)

\* a *= k
np_imul(a, k) == [a EXCEPT !.px = [i \in 1..Len(a.px) |-> a.px[i] * k]]

\* skimage.segmentation.find_boundaries(label_img, mode="thick"): a pixel is
\* on a boundary when the labels in its 3-neighbourhood are not all equal.
find_boundaries(label) ==
    [i \in 1..Len(label) |->
        \E j \in {i - 1, i + 1} : j \in 1..Len(label) /\ label[j] # label[i]]

\* skimage.segmentation.mark_boundaries(image, label_img, color=(1, 0, 0), mode="thick"):
\* a float copy of the image with the boundary pixels painted in full red.
mark_boundaries(image, label_img) ==
    LET b == find_boundaries(label_img.px) IN
    [px   |-> [i \in 1..Len(image.px) |-> IF b[i] THEN PixelMax ELSE image.px[i]],
     text |-> image.text, chan |-> "RGB", unit |-> "0..1"]

\* (a * 255).astype(np.uint8) of a float image
to_uint8(a) == [a EXCEPT !.unit = "0..255"]

\* cv2.cvtColor(a, cv2.COLOR_RGB2BGR)
cvtColor_RGB2BGR(a) == [a EXCEPT !.chan = "BGR"]

\* anomalib.post_processing.post_process.superimpose_anomaly_map(anomaly_map, image, normalize=False):
\* the colour-mapped anomaly map blended onto the image.
superimpose_anomaly_map(anomaly_map, image) ==
    [px   |-> [i \in 1..Len(image.px) |-> (4 * anomaly_map.px[i] + 6 * image.px[i]) \div 10],
     text |-> <<>>, chan |-> "RGB", unit |-> "0..255"]

\* anomalib.post_processing.post_process.add_anomalous_label / add_normal_label
add_anomalous_label(image, confidence) == [image EXCEPT !.text = <<"anomalous", confidence>>]
add_normal_label(image, confidence) == [image EXCEPT !.text = <<"normal", confidence>>]

(***************************************************************************)
(* ImageResult                                                             *)
(***************************************************************************)
\* ImageResult.__post_init__ applied to the six init fields.  The outcome is
\* [err |-> exception name or "", value |-> the object's fields].
\* Line 55 reads self.pred_mask after line 53 has rescaled it in place, and
\* np.max(None) <= 1.0 raises a TypeError.
ImageResult(image, pred_score, pred_label, anomaly_map, gt_mask, pred_mask) ==
    LET heat_map == superimpose_anomaly_map(anomaly_map, image)
        rescalePred == ~IsNone(pred_mask) /\ np_max(Get(pred_mask)) <= 1
        pred_mask1 == IF rescalePred THEN Some(np_imul(Get(pred_mask), PixelMax)) ELSE pred_mask
        segmentations == IF rescalePred THEN Some(mark_boundaries(image, Get(pred_mask1))) ELSE None
        typeError == ~IsNone(gt_mask) /\ IsNone(pred_mask1)
        rescaleGt == ~IsNone(gt_mask) /\ ~IsNone(pred_mask1) /\ np_max(Get(pred_mask1)) <= 1
        gt_mask1 == IF rescaleGt THEN Some(np_imul(Get(gt_mask), PixelMax)) ELSE gt_mask
    IN  [err   |-> IF typeError THEN "TypeError" ELSE "",
         value |-> [image |-> image, pred_score |-> pred_score, pred_label |-> pred_label,
                    anomaly_map |-> anomaly_map, gt_mask |-> gt_mask1, pred_mask |-> pred_mask1,
                    heat_map |-> heat_map, segmentations |-> segmentations]]

(***************************************************************************)
(* ImageGrid                                                               *)
(***************************************************************************)
\* ImageGrid.add_image(image, title, color_map): the new value of self.images
add_image(imgs, image, title, color_map) ==
    Append(imgs, [image |-> image, title |-> title, color_map |-> color_map])

\* plt.subplots(1, num_cols) followed by the isinstance wrap of line 225: the
\* axes of the figure, one per column, left to right (num_cols >= 1).
subplots_axes(num_cols) == [i \in 1..num_cols |-> i]

Min2(a, b) == IF a < b THEN a ELSE b

\* generate() pairing the axes with the entries in reverse order
generate_Reversed(imgs) ==
    LET axes == subplots_axes(Len(imgs)) IN
    [k \in 1..Min2(Len(axes), Len(imgs)) |->
        [column |-> axes[k], image |-> imgs[Len(imgs) + 1 - k].image,
         color_map |-> imgs[Len(imgs) + 1 - k].color_map, title |-> imgs[Len(imgs) + 1 - k].title]]

\* ImageGrid.generate(): what each axis of the single row shows, left to right.
\* zip(axes, self.images) pairs the k-th axis with the k-th entry.
generate(imgs) ==
    LET axes == subplots_axes(Len(imgs)) IN
    [k \in 1..Min2(Len(axes), Len(imgs)) |->
        [column |-> axes[k], image |-> imgs[k].image,
         color_map |-> imgs[k].color_map, title |-> imgs[k].title]]

(***************************************************************************)
(* Visualizer                                                              *)
(***************************************************************************)
\* __init__ without the mode check of lines 68-69
Visualizer_NoModeCheck(m, t) ==
    IF t \notin {"classification", "segmentation"} THEN [err |-> "ValueError", value |-> None]
    ELSE [err |-> "", value |-> Some([mode |-> m, task |-> t])]

\* __init__ without the task check of lines 71-72
Visualizer_NoTaskCheck(m, t) ==
    IF m \notin {"full", "simple"} THEN [err |-> "ValueError", value |-> None]
    ELSE [err |-> "", value |-> Some([mode |-> m, task |-> t])]

\* Visualizer.__init__(mode, task): [err, value]
Visualizer(m, t) ==
    IF m \notin {"full", "simple"} THEN [err |-> "ValueError", value |-> None]
    ELSE IF t \notin {"classification", "segmentation"} THEN [err |-> "ValueError", value |-> None]
    ELSE [err |-> "", value |-> Some([mode |-> m, task |-> t])]

NoOut == [status |-> "none", err |-> "", grid |-> None, figure |-> None, image |-> None]
Raise(e) == [NoOut EXCEPT !.status = "error", !.err = e]

\* the normal label annotated with pred_score instead of 1 - pred_score
image_classified_RawScore(r) ==
    IF r.pred_label # 0 THEN add_anomalous_label(r.heat_map, r.pred_score)
    ELSE add_normal_label(r.heat_map, r.pred_score)

\* the label-annotated heat map of lines 134-137 and 159-162
image_classified(r) ==
    IF r.pred_label # 0 THEN add_anomalous_label(r.heat_map, r.pred_score)
    ELSE add_normal_label(r.heat_map, 1 - r.pred_score)

\* the entries added to the grid by the segmentation branch, lines 126-131
full_segmentation_entries(r) ==
    LET g1 == add_image(<<>>, r.image, Some("Image"), None)
        g2 == IF ~IsNone(r.gt_mask) THEN add_image(g1, Get(r.gt_mask), Some("Ground Truth"), Some("gray"))
              ELSE g1
        g3 == add_image(g2, r.heat_map, Some("Predicted Heat Map"), None)
        g4 == add_image(g3, Get(r.pred_mask), Some("Predicted Mask"), Some("gray"))
    IN  add_image(g4, Get(r.segmentations), Some("Segmentation Result"), None)

\* the entries added to the grid by the classification branch, lines 133-138
full_classification_entries(r) ==
    LET g1 == add_image(<<>>, r.image, Some("Image"), None)
    IN  add_image(g1, image_classified(r), Some("Prediction"), None)

\* Visualizer._visualize_full(image_result)
_visualize_full(self, r) ==
    IF self.task = "segmentation" THEN
        IF IsNone(r.pred_mask) THEN Raise("AssertionError")
        ELSE IF IsNone(r.segmentations) THEN Raise("AttributeError")
        ELSE LET g == full_segmentation_entries(r) IN
             [NoOut EXCEPT !.status = "ok", !.grid = Some(g), !.figure = Some(generate(g))]
    ELSE IF self.task = "classification" THEN
        LET g == full_classification_entries(r) IN
        [NoOut EXCEPT !.status = "ok", !.grid = Some(g), !.figure = Some(generate(g))]
    ELSE Raise("ValueError: num_cols")

\* _visualize_simple returning the boundaries drawn on the original image
\* (the overlay of __post_init__) instead of on the heat map
_visualize_simple_OnImage(self, r) ==
    IF self.task = "segmentation" THEN
        IF IsNone(r.pred_mask) THEN Raise("TypeError")
        ELSE [NoOut EXCEPT !.status = "ok",
                           !.image = Some(cvtColor_RGB2BGR(to_uint8(
                                          mark_boundaries(r.image, Get(r.pred_mask)))))]
    ELSE IF self.task = "classification" THEN
        [NoOut EXCEPT !.status = "ok", !.image = Some(cvtColor_RGB2BGR(image_classified(r)))]
    ELSE Raise("ValueError: Unknown task type")

\* Visualizer._visualize_simple(image_result)
_visualize_simple(self, r) ==
    IF self.task = "segmentation" THEN
        IF IsNone(r.pred_mask) THEN Raise("TypeError")
        ELSE [NoOut EXCEPT !.status = "ok",
                           !.image = Some(cvtColor_RGB2BGR(to_uint8(
                                          mark_boundaries(r.heat_map, Get(r.pred_mask)))))]
    ELSE IF self.task = "classification" THEN
        [NoOut EXCEPT !.status = "ok", !.image = Some(cvtColor_RGB2BGR(image_classified(r)))]
    ELSE Raise("ValueError: Unknown task type")

\* Visualizer.visualize_image(image_result)
visualize_image(self, r) ==
    IF self.mode = "full" THEN _visualize_full(self, r)
    ELSE IF self.mode = "simple" THEN _visualize_simple(self, r)
    ELSE Raise("ValueError: Unknown visualization mode")

\* Visualizer.visualize_batch(batch), consumed from sample i on: for each
\* sample an ImageResult is built from the batch's tensors (the masks only
\* when the batch has the key) and its visualization is yielded; an exception
\* ends the generator.  The outcome is [err, yielded].
RECURSIVE visualize_batch_from(_, _, _, _)
visualize_batch_from(self, batch, i, yielded) ==
    IF i > Len(batch.items) THEN [err |-> "", yielded |-> yielded]
    ELSE LET item == batch.items[i]
             image_result == ImageResult(item.image, item.pred_score, item.pred_label, item.anomaly_map,
                                         IF batch.has_mask THEN Some(item.mask) ELSE None,
                                         IF batch.has_pred_masks THEN Some(item.pred_mask) ELSE None)
         IN  IF image_result.err # "" THEN [err |-> image_result.err, yielded |-> yielded]
             ELSE LET o == visualize_image(self, image_result.value) IN
                  IF o.status = "error" THEN [err |-> o.err, yielded |-> yielded]
                  ELSE visualize_batch_from(self, batch, i + 1, Append(yielded, o))

\* list(Visualizer.visualize_batch(batch))
visualize_batch(self, batch) == visualize_batch_from(self, batch, 1, <<>>)

(***************************************************************************)
(* Operations on the visualizer objects                                    *)
(***************************************************************************)
\* batches: binary masks as the datamodule and the thresholded predictions give them
BatchMasks == {Arr([i \in 1..NPix |-> IF i = NPix THEN v ELSE 0], "L") : v \in {0, 1}}
BatchItems ==
    [image : {Arr([i \in 1..NPix |-> 10], "RGB")}, pred_score : {1}, pred_label : Labels,
     anomaly_map : {Arr([i \in 1..NPix |-> 100], "L")}, mask : BatchMasks, pred_mask : BatchMasks]
Batches ==
    [items : UNION {[1..n -> BatchItems] : n \in 0..MaxBatch}, has_mask : BOOLEAN, has_pred_masks : BOOLEAN]
NoBatch == [status |-> "none", batch |-> None, err |-> "", yielded |-> <<>>]

Masks == {Arr(px, "L") : px \in [1..NPix -> MaskValues]}
OptMasks == {None} \cup {Some(m) : m \in Masks}
Images == {Arr([i \in 1..NPix |-> v], "RGB") : v \in ImageValues}
AnomalyMaps == {Arr([i \in 1..NPix |-> IF i = 1 THEN v ELSE 0], "L") : v \in AnomalyValues}

\* v = Visualizer(m, t)
NewVisualizer(m, t) ==
    LET r == Visualizer(m, t) IN
    /\ visualizer' = r.value
    /\ visErr' = r.err
    /\ visArgs' = <<m, t>>
    /\ out' = NoOut
    /\ batchOut' = NoBatch
    /\ UNCHANGED <<result, resErr, resArgs, gridVars, cliVars>>

\* r = ImageResult(image=..., pred_score=..., pred_label=..., anomaly_map=..., gt_mask=..., pred_mask=...)
NewImageResult(image, pred_score, pred_label, anomaly_map, gt_mask, pred_mask) ==
    LET r == ImageResult(image, pred_score, pred_label, anomaly_map, gt_mask, pred_mask) IN
    /\ IsNone(result) /\ resErr = ""
    /\ resErr' = r.err
    /\ resArgs' = [gt_mask |-> gt_mask, pred_mask |-> pred_mask]
    /\ result' = IF r.err = "" THEN Some(r.value) ELSE None
    /\ out' = NoOut
    /\ UNCHANGED <<visualizer, visArgs, visErr, batchOut, gridVars, cliVars>>

\* v.visualize_image(r)
VisualizeImage ==
    /\ ~IsNone(visualizer)
    /\ ~IsNone(result)
    /\ out' = visualize_image(Get(visualizer), Get(result))
    /\ UNCHANGED <<visualizer, visArgs, visErr, result, resErr, resArgs, batchOut, gridVars, cliVars>>

\* list(v.visualize_batch(batch))
VisualizeBatch(batch) ==
    /\ ~IsNone(visualizer)
    /\ batchOut' = LET r == visualize_batch(Get(visualizer), batch) IN
                   [status |-> "done", batch |-> Some(batch), err |-> r.err, yielded |-> r.yielded]
    /\ UNCHANGED <<visualizer, visArgs, visErr, result, resErr, resArgs, out, gridVars, cliVars>>

\* the visualizations of the batch have been consumed
DiscardBatch ==
    /\ batchOut # NoBatch
    /\ batchOut' = NoBatch
    /\ UNCHANGED <<visualizer, visArgs, visErr, result, resErr, resArgs, out, gridVars, cliVars>>

\* the ImageResult goes out of scope (end of an iteration of visualize_batch's
\* loop), or the exception of a failed construction has propagated
DiscardImageResult ==
    /\ ~IsNone(result) \/ resErr # ""
    /\ result' = None
    /\ resErr' = ""
    /\ resArgs' = [gt_mask |-> None, pred_mask |-> None]
    /\ out' = NoOut
    /\ UNCHANGED <<visualizer, visArgs, visErr, batchOut, gridVars, cliVars>>

VisInit ==
    /\ visualizer = None
    /\ visArgs = <<"", "">>
    /\ visErr = ""
    /\ result = None
    /\ resErr = ""
    /\ resArgs = [gt_mask |-> None, pred_mask |-> None]
    /\ out = NoOut
    /\ batchOut = NoBatch

ConstructVisualizer == \E m \in ModeArgs, t \in TaskArgs : NewVisualizer(m, t)

ConstructImageResult ==
    /\ IsNone(result) /\ resErr = "" /\ batchOut = NoBatch
    /\ \E image \in Images, pred_score \in Scores, pred_label \in Labels,
          anomaly_map \in AnomalyMaps, gt_mask \in OptMasks, pred_mask \in OptMasks :
            NewImageResult(image, pred_score, pred_label, anomaly_map, gt_mask, pred_mask)

VisualizeAnyBatch ==
    /\ IsNone(result) /\ resErr = "" /\ batchOut = NoBatch
    /\ \E batch \in Batches : VisualizeBatch(batch)

(***************************************************************************)
(* Operations on a stand-alone ImageGrid                                   *)
(***************************************************************************)
NotRendered == [status |-> "none", panels |-> <<>>]

\* grid = ImageGrid()
NewImageGrid ==
    /\ images' = <<>>
    /\ rendered' = NotRendered
    /\ UNCHANGED <<visVars, cliVars>>

\* grid.add_image(image, title, color_map)
AddImage(image, title, color_map) ==
    /\ Len(images) < MaxEntries
    /\ images' = add_image(images, image, title, color_map)
    /\ UNCHANGED <<rendered, visVars, cliVars>>

\* grid.generate(); plt.subplots(1, 0) raises a ValueError
Generate ==
    /\ rendered' = IF Len(images) = 0 THEN [status |-> "error", panels |-> <<>>]
                   ELSE [status |-> "ok", panels |-> generate(images)]
    /\ UNCHANGED <<images, visVars, cliVars>>

GridInit == images = <<>> /\ rendered = NotRendered

AddAnyImage ==
    \E image \in Images, title \in Titles, color_map \in ColorMaps : AddImage(image, title, color_map)


(***************************************************************************)
(* Paths.  A path string is the sequence of its components; an absolute    *)
(* path starts with the component "/".  "./results" is <<".", "results">>. *)
(***************************************************************************)
\* os.path.join(a, b) for one more component b: an empty component adds nothing
os_path_join(a, b) == IF b = "" THEN a ELSE Append(a, b)

\* pathlib.Path(p): parsing drops the "." components
Path(p) == SelectSeq(p, LAMBDA c : c # ".")

\* Path.parent: "a" -> ".", "." -> ".", "/" -> "/"
parent(p) == IF Len(p) = 0 \/ p = <<"/">> THEN p ELSE SubSeq(p, 1, Len(p) - 1)

\* str(path): the empty path prints as "."
str(p) == IF Len(p) = 0 THEN <<".">> ELSE p

(***************************************************************************)
(* AnomalibCLI                                                             *)
(***************************************************************************)
ModelClassPath == <<"anomalib", "models", "Padim">>
DataClassPath == <<"anomalib", "data", "MVTec">>
Last(q) == q[Len(q)]
lower(w) == CASE w = "Padim" -> "padim" [] w = "MVTec" -> "mvtec" [] OTHER -> w

\* callbacks, as configured ({class_path, init_args} dictionaries) or constructed
Callback(form, cls) ==
    [form |-> form, cls |-> cls, dirpath |-> <<>>, filename |-> "", monitor |-> <<>>, mode |-> "",
     ckpt |-> <<>>]
EarlyStoppingDict ==
    [Callback("dict", "EarlyStopping") EXCEPT !.monitor = <<"pixel_AUROC">>, !.mode = "min"]
LearningRateMonitorDict == Callback("dict", "LearningRateMonitor")
UserCallbacks == {<<>>, <<<<>>>>, <<<<LearningRateMonitorDict, EarlyStoppingDict>>>>}

\* the part of the parsed configuration that before_instantiate_classes reads
Configs ==
    [subcommand : Subcommands,
     resume_from_checkpoint : {<<>>, <<ForeignCheckpoint>>} \cup {<<f.path>> : f \in fs},
     default_root_dir : RootDirs,
     category : Categories,
     callbacks : UserCallbacks,
     normalization_method : NormalizationMethods,
     openvino : BOOLEAN,
     nncf : NncfPaths]

\* the project directory taken one level up only
project_dir_OneUp(checkpoint) == str(parent(Path(checkpoint)))

\* line 152: str(Path(resume_from_checkpoint).parent.parent)
project_dir(checkpoint) == str(parent(parent(Path(checkpoint))))

\* AnomalibCLI.__set_default_root_dir: the new trainer.default_root_dir.
\* visualization.image_save_path keeps its default "" (line 123), so line 155
\* is not executed.
set_default_root_dir(cfg, time_stamp) ==
    IF IsNone(cfg.resume_from_checkpoint) THEN
        LET root_dir == IF ~IsNone(cfg.default_root_dir) THEN Get(cfg.default_root_dir)
                        ELSE <<".", "results">>
            model_name == lower(Last(ModelClassPath))
            data_name == lower(Last(DataClassPath))
            category == IF ~IsNone(cfg.category) THEN Get(cfg.category) ELSE ""
        IN  os_path_join(os_path_join(os_path_join(os_path_join(root_dir,
                model_name), data_name), category), time_stamp)
    ELSE project_dir(Get(cfg.resume_from_checkpoint))

\* the callbacks named cls among cbs
OfClass(cbs, cls) == SelectSeq(cbs, LAMBDA c : c.cls = cls)

\* the normalization branch appending the min-max callback for "cdf" as well
normalization_callbacks_AlwaysMinMax(normalization) ==
    IF IsNone(normalization) \/ Get(normalization) = "" THEN [err |-> "", new |-> <<>>]
    ELSE IF Get(normalization) \in {"min_max", "cdf"}
         THEN [err |-> "", new |-> <<Callback("object", "MinMaxNormalizationCallback")>>]
    ELSE [err |-> "ValueError: Unknown normalization type", new |-> <<>>]

\* lines 201-210: the callbacks appended for metrics.normalization_method
normalization_callbacks(normalization) ==
    IF IsNone(normalization) \/ Get(normalization) = "" THEN [err |-> "", new |-> <<>>]
    ELSE IF Get(normalization) = "min_max"
         THEN [err |-> "", new |-> <<Callback("object", "MinMaxNormalizationCallback")>>]
    ELSE IF Get(normalization) = "cdf"
         THEN [err |-> "", new |-> <<Callback("object", "CdfNormalizationCallback")>>]
    ELSE [err |-> "ValueError: Unknown normalization type", new |-> <<>>]

\* the exclusion test passing every configuration
openvino_and_nncf_Never(cfg) == FALSE

\* line 213: config.openvino and config.nncf
openvino_and_nncf(cfg) == cfg.openvino /\ cfg.nncf # ""

\* the checkpoint arguments left at their defaults whatever the user configured
early_stopping_args_Ignored(user) == [monitor |-> <<>>, mode |-> "max"]

\* lines 166-179: monitor and mode of the checkpoint callback, taken from the
\* configured EarlyStopping callback when there is one
early_stopping_args(user) ==
    LET early == OfClass(user, "EarlyStopping") IN
    IF Len(early) > 0 THEN [monitor |-> Last(early).monitor, mode |-> Last(early).mode]
    ELSE [monitor |-> <<>>, mode |-> "max"]

\* AnomalibCLI.__set_callbacks on a configuration whose default_root_dir is set.
\* The outcome is [err, callbacks, constructed, assigned]: the exception raised
\* ("" if none), the value of config.trainer.callbacks when the method returns
\* or raises, the callback objects constructed so far, and whether line 243
\* has assigned the list.  When the user configured callbacks, line 172 makes
\* the local list the configured list itself, so every append changes it.
set_callbacks(cfg) ==
    LET root == Get(cfg.default_root_dir)
        aliased == ~IsNone(cfg.callbacks)
        user == IF aliased THEN Get(cfg.callbacks) ELSE <<>>
        monitor == early_stopping_args(user).monitor
        mode == early_stopping_args(user).mode
        checkpoint == [Callback("object", "ModelCheckpoint") EXCEPT
                          !.dirpath = <<os_path_join(root, "weights")>>, !.filename = "model",
                          !.monitor = monitor, !.mode = mode]
        load_model == [Callback("object", "LoadModelCallback") EXCEPT !.ckpt = cfg.resume_from_checkpoint]
        new1 == <<checkpoint>>
        new2 == IF ~IsNone(cfg.resume_from_checkpoint) THEN Append(new1, load_model) ELSE new1
        new3 == Append(new2, Callback("object", "TimerCallback"))
        normalization == normalization_callbacks(cfg.normalization_method)
        normErr == normalization.err # ""
        new4 == new3 \o normalization.new
        bothErr == openvino_and_nncf(cfg)
        sizeErr == cfg.openvino /\ IsNone(cfg.category)
        openvino == [Callback("object", "OpenVINOCallback") EXCEPT
                        !.dirpath = <<os_path_join(root, "compressed")>>, !.filename = "model"]
        new5 == IF cfg.openvino /\ ~sizeErr THEN Append(new4, openvino) ELSE new4
        nncfErr == cfg.nncf # "" /\ ~(cfg.nncf \in ExistingFiles /\ cfg.nncf \in YamlFiles)
        nncf == [Callback("object", "NNCFCallback") EXCEPT
                    !.dirpath = <<os_path_join(root, "compressed")>>, !.filename = "model"]
        new6 == IF cfg.nncf # "" /\ ~nncfErr THEN Append(new5, nncf) ELSE new5
        Abort(e, new) == [err |-> e, callbacks |-> IF aliased THEN <<user \o new>> ELSE cfg.callbacks,
                          constructed |-> new, assigned |-> FALSE]
    IN  IF normErr THEN Abort(normalization.err, new3)
        ELSE IF bothErr THEN Abort("ValueError: OpenVINO and NNCF cannot be set simultaneously", new4)
        ELSE IF sizeErr THEN Abort("AttributeError: image_size", new4)
        ELSE IF nncfErr THEN Abort("ValueError: --nncf expects a path to nncf config", new5)
        ELSE [err |-> "", callbacks |-> <<user \o new6>>, constructed |-> new6, assigned |-> TRUE]

\* AnomalibCLI.before_instantiate_classes: [config, out]
before_instantiate_classes(cfg, time_stamp) ==
    LET cfg1 == [cfg EXCEPT !.default_root_dir = <<set_default_root_dir(cfg, time_stamp)>>]
        r == set_callbacks(cfg1)
    IN  [config |-> [cfg1 EXCEPT !.callbacks = r.callbacks],
         out |-> [err |-> r.err, constructed |-> r.constructed, assigned |-> r.assigned,
                  time_stamp |-> time_stamp]]

(***************************************************************************)
(* Operations of a CLI run                                                 *)
(***************************************************************************)
\* the argument parser has produced the configuration of a new run
ParseArguments(cfg) ==
    /\ config' = <<[parsed |-> cfg, current |-> cfg]>>
    /\ cliOut' = None
    /\ UNCHANGED <<fs, visVars, gridVars>>

\* LightningCLI calls before_instantiate_classes once, on the parsed configuration
BeforeInstantiateClasses(time_stamp) ==
    /\ ~IsNone(config) /\ IsNone(cliOut)
    /\ LET r == before_instantiate_classes(Get(config).parsed, time_stamp) IN
        /\ config' = <<[parsed |-> Get(config).parsed, current |-> r.config]>>
        /\ cliOut' = <<r.out>>
    /\ UNCHANGED <<fs, visVars, gridVars>>

\* the fit subcommand runs; the checkpoint callback writes <dirpath>/<filename>.ckpt
TrainerFit ==
    /\ ~IsNone(config) /\ ~IsNone(cliOut) /\ Get(cliOut).err = ""
    /\ Get(config).current.subcommand = "fit"
    /\ LET cfg == Get(config).current
           checkpoint == Last(OfClass(Get(cfg.callbacks), "ModelCheckpoint"))
           file == [path |-> os_path_join(Get(checkpoint.dirpath), "model.ckpt"),
                    run_dir |-> Get(cfg.default_root_dir)]
       IN  /\ file \in fs \/ Cardinality(fs) < MaxCheckpoints
           /\ fs' = fs \cup {file}
    /\ UNCHANGED <<config, cliOut, visVars, gridVars>>

\* the process ends
Exit ==
    /\ ~IsNone(config)
    /\ config' = None
    /\ cliOut' = None
    /\ UNCHANGED <<fs, visVars, gridVars>>

StartRun == IsNone(config) /\ \E cfg \in Configs : ParseArguments(cfg)

RunBeforeInstantiateClasses == \E time_stamp \in Timestamps : BeforeInstantiateClasses(time_stamp)

(***************************************************************************)
(* Specifications                                                          *)
(***************************************************************************)
CliInit == config = None /\ cliOut = None /\ fs = {}

Init == VisInit /\ GridInit /\ CliInit
\* the visualizer: Visualizer and ImageResult objects
Next ==
    \/ ConstructVisualizer
    \/ ConstructImageResult
    \/ VisualizeImage
    \/ DiscardImageResult
    \/ VisualizeAnyBatch
    \/ DiscardBatch
Spec == Init /\ [][Next]_vars

\* a CLI process per run, and the checkpoint files the runs leave behind
CliNext ==
    \/ StartRun
    \/ RunBeforeInstantiateClasses
    \/ TrainerFit
    \/ Exit
CliSpec == Init /\ [][CliNext]_vars

\* a stand-alone ImageGrid
GridNext ==
    \/ NewImageGrid
    \/ AddAnyImage
    \/ Generate
GridSpec == Init /\ [][GridNext]_vars

(***************************************************************************)
(* Properties of the visualizer (checked under Spec)                       *)
(***************************************************************************)
Called == out.status # "none"
VisIs(m, t) == ~IsNone(visualizer) /\ Get(visualizer).mode = m /\ Get(visualizer).task = t
EntryImages(g) == [k \in 1..Len(g) |-> g[k].image]

\* C1: Visualizer(mode, task) raises ValueError when the mode is not "full" or
\* "simple" or the task is not "classification" or "segmentation"; with a
\* supported pair it succeeds and the object holds exactly that mode and task.
C1_ConstructorValidates ==
    visArgs # <<"", "">> =>
        IF visArgs[1] \in {"full", "simple"} /\ visArgs[2] \in {"classification", "segmentation"}
        THEN visErr = "" /\ visualizer = Some([mode |-> visArgs[1], task |-> visArgs[2]])
        ELSE visErr = "ValueError" /\ IsNone(visualizer)

C1_Witness == visArgs = <<"simple", "regression">> /\ visErr = "ValueError"

\* C3: in mode "full", task "segmentation", for a result with a predicted
\* mask, visualize_image lays out, left to right: image, ground truth (iff
\* the result has one), heat map, predicted mask, boundary overlay; 5 panels
\* with a ground-truth mask, 4 without.
C3_FullSegmentationPanels ==
    (VisIs("full", "segmentation") /\ ~IsNone(result) /\ ~IsNone(Get(result).pred_mask) /\ Called) =>
        LET r == Get(result) IN
        /\ out.status = "ok"
        /\ ~IsNone(out.figure)
        /\ Len(Get(out.figure)) = (IF IsNone(r.gt_mask) THEN 4 ELSE 5)
        /\ EntryImages(Get(out.figure)) =
              <<r.image>> \o r.gt_mask \o <<r.heat_map, Get(r.pred_mask)>> \o r.segmentations

\* C4: in mode "full", task "classification", visualize_image renders exactly
\* two panels for every result: the image, then the heat map labelled
\* anomalous with pred_score when pred_label is truthy and labelled normal
\* with 1 - pred_score otherwise.
C4_FullClassificationPanels ==
    (VisIs("full", "classification") /\ ~IsNone(result) /\ Called) =>
        LET r == Get(result) IN
        /\ out.status = "ok"
        /\ ~IsNone(out.figure)
        /\ Len(Get(out.figure)) = 2
        /\ Get(out.figure)[1].image = r.image
        /\ Get(out.figure)[2].image =
              [r.heat_map EXCEPT !.text = IF r.pred_label # 0 THEN <<"anomalous", r.pred_score>>
                                          ELSE <<"normal", 1 - r.pred_score>>]

C4_Witness ==
    /\ VisIs("full", "classification") /\ ~IsNone(result) /\ out.status = "ok"
    /\ Get(result).pred_label = 0 /\ Get(result).pred_score = 0
    /\ ~IsNone(Get(result).gt_mask)

\* C5: in mode "simple", task "segmentation", for a sample with a predicted
\* mask, visualize_image builds no grid and returns one image whose pixels are
\* mark_boundaries(heat_map, pred_mask) for the mask the result holds after
\* construction; calling it again on the same result returns the same image.
C5_SimpleSegmentationState ==
    (VisIs("simple", "segmentation") /\ ~IsNone(result) /\ ~IsNone(Get(result).pred_mask) /\ Called) =>
        LET r == Get(result) IN
        /\ out.status = "ok"
        /\ IsNone(out.grid) /\ IsNone(out.figure)
        /\ ~IsNone(out.image)
        /\ Get(out.image).px = mark_boundaries(r.heat_map, Get(r.pred_mask)).px
        /\ Get(out.image).text = <<>>

C5_Repeatable ==
    (Called /\ out'.status # "none" /\ visualizer' = visualizer /\ result' = result) => out' = out

C5_SimpleSegmentation == []C5_SimpleSegmentationState /\ [][C5_Repeatable]_vars

C5_Witness ==
    /\ VisIs("simple", "segmentation") /\ ~IsNone(result) /\ out.status = "ok"
    /\ ~IsNone(resArgs.pred_mask) /\ np_max(Get(resArgs.pred_mask)) = 1
    /\ \E i \in 1..NPix : Get(out.image).px[i] = PixelMax /\ Get(result).heat_map.px[i] # PixelMax

\* C6: ImageResult(...) rescales each supplied mask by that mask's own range:
\* a mask whose maximum is at most 1 is multiplied by 255, a mask whose
\* maximum exceeds 1 is left untouched.
MaskNormalized(supplied, held) ==
    ~IsNone(supplied) =>
        /\ ~IsNone(held)
        /\ Get(held) = IF np_max(Get(supplied)) <= 1 THEN np_imul(Get(supplied), 255) ELSE Get(supplied)

C6_MasksNormalizedByOwnRange ==
    ~IsNone(result) =>
        /\ MaskNormalized(resArgs.pred_mask, Get(result).pred_mask)
        /\ MaskNormalized(resArgs.gt_mask, Get(result).gt_mask)

\* C7: after ImageResult(...) with a predicted mask supplied (in 0..1 or in
\* 0..255) both heat_map and segmentations are set, and visualize_image
\* changes neither them nor the masks.
C7_DerivedSetState ==
    (~IsNone(result) /\ ~IsNone(resArgs.pred_mask)) =>
        /\ Get(result).heat_map = superimpose_anomaly_map(Get(result).anomaly_map, Get(result).image)
        /\ ~IsNone(Get(result).segmentations)

C7_Immutable == (~IsNone(result) /\ out'.status # "none") => result' = result

C7_DerivedSetAndImmutable == []C7_DerivedSetState /\ [][C7_Immutable]_vars

(***************************************************************************)
(* Properties of the image grid (checked under GridSpec)                   *)
(***************************************************************************)
\* C10: add_image appends exactly one (image, title, color map) entry at the
\* end and leaves the earlier entries unchanged; for a grid with at least one
\* entry generate lays out one panel per entry in a single row, in the order
\* added, each panel showing its own entry's image, title and color map.
C10_AppendOnly ==
    (images' # images /\ images' # <<>>) =>
        /\ Len(images') = Len(images) + 1
        /\ SubSeq(images', 1, Len(images)) = images

C10_OnePanelPerEntry ==
    (rendered' # rendered /\ Len(images) >= 1 /\ images' = images) =>
        /\ rendered'.status = "ok"
        /\ Len(rendered'.panels) = Len(images)
        /\ \A k \in 1..Len(images) :
              /\ rendered'.panels[k].column = k
              /\ rendered'.panels[k].image = images[k].image
              /\ rendered'.panels[k].title = images[k].title
              /\ rendered'.panels[k].color_map = images[k].color_map

C10_GridAppendAndRender == [][C10_AppendOnly]_vars /\ [][C10_OnePanelPerEntry]_vars

C10_Witness ==
    /\ rendered.status = "ok" /\ Len(rendered.panels) = MaxEntries
    /\ rendered.panels[1].image # rendered.panels[2].image
    /\ rendered.panels[1].title # rendered.panels[2].title
    /\ images[1].color_map # images[2].color_map

(***************************************************************************)
(* Properties of the CLI (checked under CliSpec)                           *)
(***************************************************************************)
Ran == ~IsNone(config) /\ ~IsNone(cliOut)
Parsed == Get(config).parsed
Current == Get(config).current
Count(cbs, cls) == Len(OfClass(cbs, cls))
ConfigurationErrors ==
    {"ValueError: Unknown normalization type",
     "ValueError: OpenVINO and NNCF cannot be set simultaneously",
     "ValueError: --nncf expects a path to nncf config"}

\* C2: when the OpenVINO flag is true and the NNCF path is non-empty,
\* before_instantiate_classes raises a ValueError whatever the other options
\* are (the exclusion error when the normalization method is valid), no
\* OpenVINO or NNCF callback has been constructed, and line 243 has not
\* assigned the trainer's callback list.
C2_OpenvinoNncfExclusive ==
    (Ran /\ Parsed.openvino /\ Parsed.nncf # "") =>
        /\ Get(cliOut).err \in ConfigurationErrors
        /\ Parsed.normalization_method \in {<<>>, <<"">>, <<"min_max">>, <<"cdf">>} =>
              Get(cliOut).err = "ValueError: OpenVINO and NNCF cannot be set simultaneously"
        /\ Count(Get(cliOut).constructed, "OpenVINOCallback") = 0
        /\ Count(Get(cliOut).constructed, "NNCFCallback") = 0
        /\ ~Get(cliOut).assigned
        /\ IsNone(Parsed.callbacks) => IsNone(Current.callbacks)

C2_Witness ==
    /\ Ran /\ Parsed.openvino /\ Parsed.nncf = "nncf.yaml"
    /\ Parsed.normalization_method = <<"cdf">> /\ ~IsNone(Parsed.resume_from_checkpoint)
    /\ ~IsNone(Parsed.category)
    /\ Get(cliOut).err = "ValueError: OpenVINO and NNCF cannot be set simultaneously"

\* C8: after a successful __set_callbacks the trainer callback list holds
\* exactly one min-max callback and no CDF callback for "min_max", exactly one
\* CDF callback and no min-max callback for "cdf", neither for none/empty;
\* any other value raises a ValueError and the run does not proceed.
C8_NormalizationSelectsCallback ==
    Ran =>
        LET method == Parsed.normalization_method IN
        /\ Get(cliOut).err = "" =>
              /\ ~IsNone(Current.callbacks)
              /\ Count(Get(Current.callbacks), "MinMaxNormalizationCallback")
                    = (IF method = <<"min_max">> THEN 1 ELSE 0)
              /\ Count(Get(Current.callbacks), "CdfNormalizationCallback")
                    = (IF method = <<"cdf">> THEN 1 ELSE 0)
        /\ method \notin {<<>>, <<"">>, <<"min_max">>, <<"cdf">>} =>
              /\ Get(cliOut).err = "ValueError: Unknown normalization type"
              /\ ~Get(cliOut).assigned
              /\ ~ENABLED TrainerFit

C8_Witness ==
    /\ Ran /\ Get(cliOut).err = "" /\ Parsed.normalization_method = <<"cdf">>
    /\ Parsed.callbacks # <<>> /\ Parsed.openvino
    /\ Count(Get(Current.callbacks), "CdfNormalizationCallback") = 1

\* C9 (as stated): a fresh run's directory is <root>/<model>/<data>/<category>/
\* <timestamp> (root "./results" by default), its checkpoint callback writes
\* to <run directory>/weights with filename "model", exports go to
\* <run directory>/compressed; resuming from <run directory>/weights/model.ckpt
\* computes exactly that same <run directory> as the default root directory.
FreshLayout ==
    (Ran /\ IsNone(Parsed.resume_from_checkpoint)) =>
        Current.default_root_dir =
            << (IF IsNone(Parsed.default_root_dir) THEN <<".", "results">> ELSE Get(Parsed.default_root_dir))
               \o <<"padim", "mvtec">> \o Parsed.category \o <<Get(cliOut).time_stamp>> >>

CallbackLayout ==
    Ran => \A k \in 1..Len(Get(cliOut).constructed) :
        LET c == Get(cliOut).constructed[k] IN
        /\ c.cls = "ModelCheckpoint" =>
              c.dirpath = <<Get(Current.default_root_dir) \o <<"weights">> >> /\ c.filename = "model"
        /\ c.cls \in {"OpenVINOCallback", "NNCFCallback"} =>
              c.dirpath = <<Get(Current.default_root_dir) \o <<"compressed">> >> /\ c.filename = "model"

C9_ResumeSameString ==
    /\ FreshLayout
    /\ CallbackLayout
    /\ Ran => \A f \in fs :
          Parsed.resume_from_checkpoint = <<f.path>> => Current.default_root_dir = <<f.run_dir>>

\* C9 (amended): as above, but the resumed run's default root directory is the
\* original run directory as pathlib prints it, i.e. without its "."
\* components ("./results/..." becomes "results/..."): the same directory,
\* and the same string only when the original has no "." component.
C9_ResumeSameDirectory ==
    /\ FreshLayout
    /\ CallbackLayout
    /\ Ran => \A f \in fs :
          Parsed.resume_from_checkpoint = <<f.path>> =>
              /\ Current.default_root_dir = <<SelectSeq(f.run_dir, LAMBDA c : c # ".")>>
              /\ "." \notin {f.run_dir[i] : i \in 1..Len(f.run_dir)} =>
                    Current.default_root_dir = <<f.run_dir>>

C9_Witness ==
    /\ Ran /\ Get(cliOut).err = ""
    /\ \E f \in fs : /\ Parsed.resume_from_checkpoint = <<f.path>>
                     /\ f.run_dir[1] = "."
                     /\ Len(f.run_dir) = 5
    /\ Count(Get(cliOut).constructed, "OpenVINOCallback") = 1

(***************************************************************************)
(* Properties of visualize_batch and of dispatch (checked under Spec)      *)
(***************************************************************************)
DispatchErrors == {"ValueError: Unknown visualization mode", "ValueError: Unknown task type"}

\* C11: a constructed Visualizer holds the mode and task given at
\* construction, no visualize_image or visualize_batch call changes them, and
\* neither call ever raises "Unknown visualization mode" or "Unknown task type".
C11_ModeTaskFixedState ==
    ~IsNone(visualizer) =>
        /\ Get(visualizer).mode = visArgs[1] /\ Get(visualizer).task = visArgs[2]
        /\ out.err \notin DispatchErrors
        /\ batchOut.err \notin DispatchErrors

C11_NoReassignment ==
    (~IsNone(visualizer) /\ (out'.status # "none" \/ batchOut'.status # "none")) =>
        visualizer' = visualizer

C11_DispatchErrorsUnreachable == []C11_ModeTaskFixedState /\ [][C11_NoReassignment]_vars

C11_Witness ==
    /\ VisIs("simple", "classification")
    /\ batchOut.status = "done" /\ batchOut.err = "" /\ Len(batchOut.yielded) = MaxBatch

\* C13: a sample with a ground-truth mask and no predicted mask (a batch with
\* the "mask" key and without the "pred_masks" key) gives an ImageResult
\* without error, with its heat map set, and in task "classification"
\* visualize_batch yields one visualization per such sample in both modes.
C13_GroundTruthWithoutPrediction ==
    /\ (~IsNone(resArgs.gt_mask) /\ IsNone(resArgs.pred_mask)) =>
          /\ resErr = ""
          /\ ~IsNone(result)
          /\ Get(result).heat_map = superimpose_anomaly_map(Get(result).anomaly_map, Get(result).image)
    /\ (/\ ~IsNone(visualizer) /\ Get(visualizer).task = "classification"
        /\ batchOut.status = "done"
        /\ Get(batchOut.batch).has_mask /\ ~Get(batchOut.batch).has_pred_masks) =>
          /\ batchOut.err = ""
          /\ Len(batchOut.yielded) = Len(Get(batchOut.batch).items)
          /\ \A k \in 1..Len(batchOut.yielded) : batchOut.yielded[k].status = "ok"

(***************************************************************************)
(* Properties of the callback list (checked under CliSpec)                 *)
(***************************************************************************)
Classes(cbs) == [k \in 1..Len(cbs) |-> cbs[k].cls]
UserList == IF IsNone(Parsed.callbacks) THEN <<>> ELSE Get(Parsed.callbacks)

\* C12: after a successful __set_callbacks the trainer's callback list is the
\* user's callbacks in their order, then one ModelCheckpoint, then a
\* LoadModelCallback iff a resume checkpoint is configured, then one
\* TimerCallback, then the normalization callback if any, then at most one
\* export callback; the checkpoint monitors the configured EarlyStopping
\* callback's metric and mode, or nothing with mode "max" without one.
C12_CallbackOrder ==
    (Ran /\ Get(cliOut).err = "") =>
        LET cbs == Get(Current.callbacks)
            n == Len(UserList)
            method == Parsed.normalization_method
            early == OfClass(UserList, "EarlyStopping")
        IN  /\ SubSeq(cbs, 1, n) = UserList
            /\ Classes(SubSeq(cbs, n + 1, Len(cbs))) =
                  <<"ModelCheckpoint">>
                  \o (IF ~IsNone(Parsed.resume_from_checkpoint) THEN <<"LoadModelCallback">> ELSE <<>>)
                  \o <<"TimerCallback">>
                  \o (IF method = <<"min_max">> THEN <<"MinMaxNormalizationCallback">>
                      ELSE IF method = <<"cdf">> THEN <<"CdfNormalizationCallback">> ELSE <<>>)
                  \o (IF Parsed.openvino THEN <<"OpenVINOCallback">> ELSE <<>>)
                  \o (IF Parsed.nncf # "" THEN <<"NNCFCallback">> ELSE <<>>)
            /\ Count(cbs, "OpenVINOCallback") + Count(cbs, "NNCFCallback") <= 1
            /\ cbs[n + 1].monitor = (IF Len(early) > 0 THEN early[1].monitor ELSE <<>>)
            /\ cbs[n + 1].mode = (IF Len(early) > 0 THEN early[1].mode ELSE "max")

C12_Witness ==
    /\ Ran /\ Get(cliOut).err = ""
    /\ Len(UserList) = 2 /\ ~IsNone(Parsed.resume_from_checkpoint)
    /\ Parsed.normalization_method = <<"min_max">> /\ Parsed.nncf = "nncf.yaml"
    /\ Len(Get(Current.callbacks)) = 7
    /\ Get(Current.callbacks)[3].mode = "min"

\* C14: when __set_callbacks fails with a configuration error, the trainer
\* callback list of the configuration is exactly what it was before the call,
\* also when the user configured a non-empty list.
C14_FailureLeavesCallbacks ==
    (Ran /\ Get(cliOut).err \in ConfigurationErrors) => Current.callbacks = Parsed.callbacks

====
